---- MODULE Spec2Model ----
(***************************************************************************)
(* L2DClaw: the screen-monitor runner of the Electron client               *)
(* (components/screen-monitor-runner.tsx).  The component is one React      *)
(* effect: every change of a dependency runs the cleanup of the previous    *)
(* effect run and then the effect body again.  An effect run owns a local   *)
(* `cancelled`, while intervalRef, startedByMonitorRef and isSendingRef are *)
(* refs shared by all runs.  Promises (startCapture, captureAllMedia) and   *)
(* interval ticks resolve in any order relative to re-renders.              *)
(***************************************************************************)
EXTENDS Integers, Sequences, FiniteSets, TLC

\* ------------------------------------------------------------------ bounds
MaxRuns == 2        \* effect runs of one component instance
MaxTicks == 2       \* interval ticks that pass the gate

\* --------------------------------------------------------------- constants
MONITOR_INTERVAL_MS == 5000

WsStates == {"OPEN", "CLOSED"}
AiStates == {"IDLE", "THINKING"}

NoStream == [id |-> 0, by |-> "none"]

\* what captureAllMedia can resolve with: lists of image sources
Captures == {<<>>, <<"camera", "screen">>}

VARIABLES
  mounted,              \* the component is mounted
  enabled,              \* settings.enabled, as the context holds it
  stream,               \* the screen-capture context's stream (NoStream = null)
  wsState,              \* websocket state of the context
  aiState,              \* AI state of the context
  deps,                 \* the dependency values of the last effect run
  runs,                 \* the effect runs, oldest first; the last is the live one
  intervalRef,          \* intervalRef.current: 0 = null, else the id of a timer
  timers,               \* timers that are set and not cleared, each with the
                        \* wsState and aiState its callback closed over
  startedByMonitorRef,  \* startedByMonitorRef.current
  isSendingRef,         \* isSendingRef.current
  ticks,                \* ticks awaiting captureAllMedia
  nTicks,               \* ticks that passed the gate so far
  sent,                 \* messages handed to sendMessage, oldest first
  outcome               \* how the last finished tick ended

vars == <<mounted, enabled, stream, wsState, aiState, deps, runs, intervalRef,
          timers, startedByMonitorRef, isSendingRef, ticks, nTicks, sent, outcome>>

ctxVars == <<enabled, stream, wsState, aiState>>
tickVars == <<isSendingRef, ticks, nTicks, sent, outcome>>
refVars == <<intervalRef, timers, startedByMonitorRef>>

\* ------------------------------------------------------------ the refs
\* The part of the state the effect's local functions read and write.
Refs == [intervalRef |-> intervalRef, timers |-> timers,
         started |-> startedByMonitorRef, stream |-> stream]

clearTimer(S) ==
  IF S.intervalRef # 0
    THEN [S EXCEPT !.timers = {t \in @ : t.id # S.intervalRef}, !.intervalRef = 0]
    ELSE S

\* stopCapture of the screen-capture context: ends the current stream.
stopCapture(S) ==
  [S EXCEPT !.stream = NoStream]

stopOwnedCapture(S) ==
  IF S.started
    THEN [stopCapture(S) EXCEPT !.started = FALSE]
    ELSE S

\* the function the effect returns
cleanup(S) == stopOwnedCapture(clearTimer(S))

\* the else branch of the effect body
disabledBranch(S) == stopOwnedCapture(clearTimer(S))

\* ------------------------------------------------------- the effect body
\* a runner that starts the monitor whatever the setting
startsMonitorAlways(en) == TRUE

\* line 81: which branch the effect body takes
startsMonitor(en) == en

\* ensureScreenStream up to its first await: with a stream it returns true at
\* once, without one it calls startCapture and waits for it
ensureScreenStream(str) ==
  IF str # NoStream THEN "ready" ELSE "startCapture"

\* a catch block that reports success
catchReturnsTrue == "ready"

\* ensureScreenStream's catch block: what startMonitor sees as `ready`
catchStartCapture == "notReady"

\* a startMonitor that does not look at `cancelled`
returnsEarlyIgnoringCancelled(ready, cancelled) == ~ready

\* line 52: startMonitor returns without creating the timer
returnsEarly(ready, cancelled) == ~ready \/ cancelled

\* an effect run: the settings.enabled it saw, its `cancelled`, and where its
\* startMonitor stands
NewRun(en, pc0) ==
  [enabled |-> en, cancelled |-> FALSE, pc |-> pc0]

CtxDeps == [enabled |-> enabled, stream |-> stream, ws |-> wsState, ai |-> aiState]

SetRefs(S) ==
  /\ intervalRef' = S.intervalRef
  /\ timers' = S.timers
  /\ startedByMonitorRef' = S.started
  /\ stream' = S.stream

\* React runs the effect: the cleanup of the previous run, if there is one, then
\* the body, which closes over the values of this render.
RunEffect ==
  LET hasOld == runs # <<>>
      S1 == IF hasOld THEN cleanup(Refs) ELSE Refs
      runs1 == IF hasOld THEN [runs EXCEPT ![Len(runs)].cancelled = TRUE] ELSE runs
      go == startsMonitor(enabled)
      S2 == IF go THEN S1 ELSE disabledBranch(S1)
      pc0 == IF go THEN ensureScreenStream(stream) ELSE "off"
  IN /\ runs' = Append(runs1, NewRun(enabled, pc0))
     /\ deps' = CtxDeps
     /\ SetRefs(S2)
     /\ UNCHANGED <<mounted, enabled, wsState, aiState>>
     /\ UNCHANGED tickVars

Live == Len(runs)

\* the first effect run, after the component mounted
Mount ==
  /\ mounted /\ runs = <<>>
  /\ RunEffect

\* a dependency value (settings.enabled, stream, wsState, aiState) changed
DepsChanged ==
  /\ mounted /\ runs # <<>> /\ Len(runs) < MaxRuns
  /\ CtxDeps # deps
  /\ RunEffect

\* a callback dependency (startCapture, stopCapture, captureAllMedia,
\* sendMessage) changed identity while the values stayed the same
CallbackChanged ==
  /\ mounted /\ runs # <<>> /\ Len(runs) < MaxRuns
  /\ CtxDeps = deps
  /\ RunEffect

\* the component unmounts: the cleanup of the live run, and no further run
Unmount ==
  /\ mounted /\ runs # <<>>
  /\ mounted' = FALSE
  /\ runs' = [runs EXCEPT ![Len(runs)].cancelled = TRUE]
  /\ SetRefs(cleanup(Refs))
  /\ UNCHANGED <<enabled, wsState, aiState, deps>>
  /\ UNCHANGED tickVars

\* ------------------------------------------------- startCapture's promise
\* A stream is a new object, unequal to every stream held anywhere: the one of
\* the context and the one the last effect run was given as a dependency.
NewStream(who) ==
  [id |-> CHOOSE i \in 1..3 : i \notin {stream.id, deps.stream.id}, by |-> who]

RunIds == 1..Len(runs)

\* startCapture resolves: the context holds the new stream, and
\* ensureScreenStream goes on to line 42
StartCaptureResolves(r) ==
  /\ runs[r].pc = "startCapture"
  /\ stream' = NewStream("monitor")
  /\ startedByMonitorRef' = TRUE
  /\ runs' = [runs EXCEPT ![r].pc = "ready"]
  /\ UNCHANGED <<mounted, deps, enabled, wsState, aiState, intervalRef, timers>>
  /\ UNCHANGED tickVars

\* startCapture rejects: the catch block of ensureScreenStream
StartCaptureRejects(r) ==
  /\ runs[r].pc = "startCapture"
  /\ runs' = [runs EXCEPT ![r].pc = catchStartCapture]
  /\ UNCHANGED <<mounted, deps, refVars>>
  /\ UNCHANGED ctxVars
  /\ UNCHANGED tickVars

\* startMonitor goes on after `await ensureScreenStream()`.  Only the live run
\* has `cancelled` false, so the callback it creates closes over the wsState and
\* aiState of `deps`.
StartMonitorResumes(r) ==
  /\ runs[r].pc \in {"ready", "notReady"}
  /\ IF returnsEarly(runs[r].pc = "ready", runs[r].cancelled)
       THEN /\ runs' = [runs EXCEPT ![r].pc =
                                     IF @ = "ready" THEN "returned" ELSE "failed"]
            /\ UNCHANGED <<intervalRef, timers>>
       ELSE /\ runs' = [runs EXCEPT ![r].pc = "monitoring"]
            /\ intervalRef' = r
            /\ timers' = timers \cup {[id |-> r, ws |-> deps.ws, ai |-> deps.ai]}
  /\ UNCHANGED <<mounted, deps, startedByMonitorRef>>
  /\ UNCHANGED ctxVars
  /\ UNCHANGED tickVars

\* ------------------------------------------------------ the interval tick
SCREEN_MONITOR_PROMPT == "SCREEN_MONITOR_PROMPT"

\* a timer callback without the isSendingRef check
tickGateWithoutBusy(sending, ws, ai) ==
  IF ws # "OPEN" THEN "ws"
  ELSE IF ai # "IDLE" THEN "ai"
  ELSE "go"

\* lines 55-57: the three early returns of the timer callback, which read the
\* ref and the wsState and aiState the effect run closed over
tickGate(sending, ws, ai) ==
  IF sending THEN "busy"
  ELSE IF ws # "OPEN" THEN "ws"
  ELSE IF ai # "IDLE" THEN "ai"
  ELSE "go"

\* lines 64-68
\* a tagging that marks every image
tagEveryImage(image) == [image EXCEPT !.category = "screen-monitor"]

\* lines 64-68: the map over the captured images
tagImage(image) ==
  IF image.source = "screen"
    THEN [image EXCEPT !.category = "screen-monitor"]
    ELSE image

taggedImages(images) == [i \in DOMAIN images |-> tagImage(images[i])]

\* an image as captureAllMedia returns it
Image(src) == [source |-> src, category |-> "none"]

\* a try block that sends whatever was captured
messagesOfAnyCapture(images) ==
  <<[type |-> "text-input", text |-> SCREEN_MONITOR_PROMPT,
     images |-> taggedImages(images)]>>

\* lines 62-74: what the try block hands to sendMessage
messagesOf(images) ==
  IF Len(images) = 0
    THEN <<>>
    ELSE <<[type |-> "text-input", text |-> SCREEN_MONITOR_PROMPT,
            images |-> taggedImages(images)]>>

\* a reset that is skipped when captureAllMedia throws
resetUnlessThrown(ended) == ended = "threw"

\* lines 75-77: isSendingRef.current after the tick, however the try block ended
finallyBlock(ended) == FALSE

\* the timer tm fires
Tick(tm) ==
  /\ tm \in timers
  /\ IF tickGate(isSendingRef, tm.ws, tm.ai) = "go"
       THEN /\ nTicks < MaxTicks
            /\ isSendingRef' = TRUE
            /\ nTicks' = nTicks + 1
            /\ ticks' = ticks \cup {[id |-> nTicks + 1, run |-> tm.id]}
       ELSE UNCHANGED <<isSendingRef, nTicks, ticks>>
  /\ UNCHANGED <<mounted, deps, runs, sent, outcome, refVars>>
  /\ UNCHANGED ctxVars

\* captureAllMedia resolves for tick t
CaptureResolves(t, srcs) ==
  LET images == [i \in DOMAIN srcs |-> Image(srcs[i])]
      msgs == messagesOf(images)
      ended == IF msgs = <<>> THEN "empty" ELSE "sent"
  IN /\ t \in ticks
     /\ sent' = sent \o msgs
     /\ outcome' = ended
     /\ isSendingRef' = finallyBlock(ended)
     /\ ticks' = ticks \ {t}
     /\ UNCHANGED <<mounted, deps, runs, nTicks, refVars>>
     /\ UNCHANGED ctxVars

\* captureAllMedia throws for tick t
CaptureThrows(t) ==
  /\ t \in ticks
  /\ outcome' = "threw"
  /\ isSendingRef' = finallyBlock("threw")
  /\ ticks' = ticks \ {t}
  /\ UNCHANGED <<mounted, deps, runs, nTicks, sent, refVars>>
  /\ UNCHANGED ctxVars

\* ------------------------------------------------------- the environment
\* The contexts are followed while the component is mounted: after the unmount
\* no code of the component reads them again (a timer callback reads the values
\* its effect run closed over).
\* setEnabled of the settings context (a saved settings dialog)
SetEnabled ==
  /\ mounted
  /\ enabled' = ~enabled
  /\ UNCHANGED <<mounted, deps, runs, stream, wsState, aiState, refVars>>
  /\ UNCHANGED tickVars

WsChanges ==
  /\ mounted
  /\ wsState' \in WsStates \ {wsState}
  /\ UNCHANGED <<mounted, deps, runs, enabled, stream, aiState, refVars>>
  /\ UNCHANGED tickVars

AiChanges ==
  /\ mounted
  /\ aiState' \in AiStates \ {aiState}
  /\ UNCHANGED <<mounted, deps, runs, enabled, stream, wsState, refVars>>
  /\ UNCHANGED tickVars

\* another user of the screen-capture context starts a capture of its own
OtherStartsCapture ==
  /\ mounted
  /\ stream = NoStream
  /\ stream' = NewStream("other")
  /\ UNCHANGED <<mounted, deps, runs, enabled, wsState, aiState, refVars>>
  /\ UNCHANGED tickVars

\* another user of the screen-capture context stops the current capture
OtherStopsCapture ==
  /\ mounted
  /\ stream # NoStream
  /\ stream' = NoStream
  /\ UNCHANGED <<mounted, deps, runs, enabled, wsState, aiState, refVars>>
  /\ UNCHANGED tickVars

\* ------------------------------------------- the rest of the repository
\* The runner above is one of several programs of the repository.  The others
\* (the orchestrator's main(), the adapter manager, the screen adapter's
\* content recognizer and the settings hook) have their own state and their
\* own specification further down; while the runner runs they are at rest.
VARIABLES
  mpc,            \* main(): where its control is
  initFlag,       \* INIT_FLAG.exists(), as main() finds it
  wizard,         \* SetupWizard.run(): "notRun", "ok" or "refused"
  configLoaded,   \* load_config and load_user_prefs have returned
  localInit,      \* LocalQwen3TTS.initialize: "notCalled", "returned", "raised"
  tts,            \* the provider main()'s `tts` is bound to ("none" before)
  registered,     \* the adapters given to manager.register, in order
  voiceCallback,  \* manager.set_voice_callback(on_voice_input) was called
  driverStarted,  \* driver.start() was called
  managerStarted, \* manager.start_all() was called
  busy,           \* the manager's busy flag
  queue,          \* "speech" events waiting behind the busy gate
  interrupt,      \* the event that cancelled the call in flight (NoEvent = none)
  calls,          \* the on_voice_input invocations that are executing
  nArrived        \* "speech" events the manager has received

mainVars == <<mpc, initFlag, wizard, configLoaded, localInit, tts, registered,
              voiceCallback, driverStarted, managerStarted, busy, queue,
              interrupt, calls, nArrived>>

NoEvent == [text |-> 0, priority |-> 0]

MainAtRest ==
  /\ mpc = "rest"
  /\ initFlag = FALSE
  /\ wizard = "notRun"
  /\ configLoaded = FALSE
  /\ localInit = "notCalled"
  /\ tts = "none"
  /\ registered = <<>>
  /\ voiceCallback = FALSE
  /\ driverStarted = FALSE
  /\ managerStarted = FALSE
  /\ busy = FALSE
  /\ queue = <<>>
  /\ interrupt = NoEvent
  /\ calls = {}
  /\ nArrived = 0

VARIABLES
  registry,       \* AdapterManager: the registered adapters, in order
  mgrPc,          \* AdapterManager: "registering", "starting" or "started"
  cursor,         \* start_all: the index of the registration it is at
  available,      \* the adapters whose is_available() is true on this host
  initResult,     \* per adapter, what its initialize() returned
  active,         \* the adapters the manager started
  snapshot,       \* the manager's snapshot: entries [source, state]
  snapshotRead,   \* what the last get_context_snapshot() returned
  nEvents         \* events the adapters have reported

mgrVars == <<registry, mgrPc, cursor, available, initResult, active, snapshot,
             snapshotRead, nEvents>>

Adapters == {"screen", "voice", "keyboard"}

NotRead == <<[source |-> "none", state |-> 0]>>

ManagerAtRest ==
  /\ registry = <<>>
  /\ mgrPc = "rest"
  /\ cursor = 0
  /\ available = {}
  /\ initResult = [a \in Adapters |-> "notCalled"]
  /\ active = {}
  /\ snapshot = <<>>
  /\ snapshotRead = NotRead
  /\ nEvents = 0

VARIABLES
  platform,       \* sys.platform of the host
  cfgMode,        \* config.screen_watcher.content_recognition_mode
  recMode,        \* ContentRecognizer.mode ("unset" before __init__)
  capture,        \* the last capture_and_analyze call: what it was given, what
                  \* it made and what it returned
  windowCall      \* the last get_active_window call, likewise

scrVars == <<platform, cfgMode, recMode, capture, windowCall>>

NoCapture == [cfg |-> "none", mode |-> "none", text |-> <<>>, made |-> {},
              returned |-> <<>>]

NoWindow == [title |-> "", process |-> ""]

NoWindowCall == [win |-> NoWindow, mac |-> NoWindow,
                 result |-> [raised |-> "", window |-> NoWindow]]

ScreenAtRest ==
  /\ platform = "none"
  /\ cfgMode = "ocr"
  /\ recMode = "unset"
  /\ capture = NoCapture
  /\ windowCall = NoWindowCall

VARIABLES
  tempSettings,     \* useScreenMonitorSettings: the draft the dialog shows
  originalSettings, \* useScreenMonitorSettings: the settings to go back to
  ops,              \* the calls of the hook's handlers so far, in order
  beforeToggles,    \* settings.enabled when the present run of toggles began
  storedRest,       \* what the stored settings hold besides `enabled`
  onSave,           \* the prop onSave is provided
  onCancel,         \* the prop onCancel is provided
  saveHandlers,     \* the callbacks registered through onSave and not
                    \* unregistered, each with the tempSettings it closed over
  cancelHandlers    \* likewise through onCancel, with the originalSettings

hookVars == <<tempSettings, originalSettings, ops, beforeToggles, storedRest,
              onSave, onCancel, saveHandlers, cancelHandlers>>

DEFAULT_SETTINGS == [enabled |-> FALSE]

HookAtRest ==
  /\ tempSettings = DEFAULT_SETTINGS
  /\ originalSettings = DEFAULT_SETTINGS
  /\ ops = <<>>
  /\ beforeToggles = FALSE
  /\ storedRest = "none"
  /\ onSave = FALSE
  /\ onCancel = FALSE
  /\ saveHandlers = {}
  /\ cancelHandlers = {}

VARIABLES
  captured,       \* the images one captureAllMedia call resolved with
  handed,         \* what the try block of that tick handed to sendMessage
  tryPc           \* the try block: "awaiting" captureAllMedia, or "done"

tryVars == <<captured, handed, tryPc>>

TryAtRest ==
  /\ captured = <<>>
  /\ handed = <<>>
  /\ tryPc = "rest"

VARIABLES
  spc,            \* start_all.sh: where the script is
  portIdx,        \* which of the two kill_port calls it is in
  pids,           \* kill_port: its local `pids`
  proc,           \* the processes of the host: the port each has to do
                  \* with, and whether it listens, is closing down, or is gone
  termed,         \* the processes that were sent the normal kill
  forced,         \* the processes that were sent kill -9
  foundFirst,     \* what the first lsof of the kill_port calls listed
  rechecked,      \* what the lsof after the wait listed
  handled,        \* the ports whose kill_port call has returned
  launched        \* what the script has launched, in order

startVars == <<spc, portIdx, pids, proc, termed, forced, foundFirst,
               rechecked, handled, launched>>

StartAtRest ==
  /\ spc = "rest"
  /\ portIdx = 0
  /\ pids = {}
  /\ proc = <<>>
  /\ termed = {}
  /\ forced = {}
  /\ foundFirst = {}
  /\ rechecked = {}
  /\ handled = <<>>
  /\ launched = <<>>

\* the runner before it is mounted, whatever the setting
RunnerUnmounted ==
  /\ mounted = FALSE
  /\ stream = NoStream
  /\ wsState = "CLOSED"
  /\ aiState = "IDLE"
  /\ deps = [enabled |-> FALSE, stream |-> NoStream, ws |-> "CLOSED",
             ai |-> "IDLE"]
  /\ runs = <<>>
  /\ intervalRef = 0
  /\ timers = {}
  /\ startedByMonitorRef = FALSE
  /\ isSendingRef = FALSE
  /\ ticks = {}
  /\ nTicks = 0
  /\ sent = <<>>
  /\ outcome = "none"

RunnerAtRest == RunnerUnmounted /\ enabled = DEFAULT_SETTINGS.enabled

\* the programs other than the runner
others == <<mainVars, mgrVars, scrVars, hookVars, tryVars,
            startVars>>

OthersAtRest ==
  /\ MainAtRest
  /\ ManagerAtRest
  /\ ScreenAtRest
  /\ HookAtRest
  /\ TryAtRest
  /\ StartAtRest

\* the programs other than main()
notMain == <<vars, mgrVars, scrVars, hookVars, tryVars,
             startVars>>

NotMainAtRest ==
  /\ RunnerAtRest
  /\ ManagerAtRest
  /\ ScreenAtRest
  /\ HookAtRest
  /\ TryAtRest
  /\ StartAtRest

\* the programs other than the adapter manager
notManager == <<vars, mainVars, scrVars, hookVars, tryVars,
                startVars>>

NotManagerAtRest ==
  /\ RunnerAtRest
  /\ MainAtRest
  /\ ScreenAtRest
  /\ HookAtRest
  /\ TryAtRest
  /\ StartAtRest

\* the programs other than the screen adapter
notScreen == <<vars, mainVars, mgrVars, hookVars, tryVars,
               startVars>>

NotScreenAtRest ==
  /\ RunnerAtRest
  /\ MainAtRest
  /\ ManagerAtRest
  /\ HookAtRest
  /\ TryAtRest
  /\ StartAtRest

\* the programs other than start_all.sh
notStart == <<vars, mainVars, mgrVars, scrVars, hookVars, tryVars>>

NotStartAtRest ==
  /\ RunnerAtRest
  /\ MainAtRest
  /\ ManagerAtRest
  /\ ScreenAtRest
  /\ HookAtRest
  /\ TryAtRest

\* the programs other than one tick's try block
notTry == <<vars, mainVars, mgrVars, scrVars, hookVars,
            startVars>>

NotTryAtRest ==
  /\ RunnerAtRest
  /\ MainAtRest
  /\ ManagerAtRest
  /\ ScreenAtRest
  /\ HookAtRest
  /\ StartAtRest

\* the programs other than the settings hook and the setting it persists
notHook == <<mounted, stream, wsState, aiState, deps, runs, intervalRef,
             timers, startedByMonitorRef, isSendingRef, ticks, nTicks, sent,
             outcome, mainVars, mgrVars, scrVars, tryVars, startVars>>

NotHookAtRest ==
  /\ RunnerUnmounted
  /\ MainAtRest
  /\ ManagerAtRest
  /\ ScreenAtRest
  /\ TryAtRest
  /\ StartAtRest

\* ------------------------------------------------------ the specification
Init ==
  /\ mounted = TRUE
  /\ enabled \in BOOLEAN
  /\ stream = NoStream
  /\ wsState \in WsStates
  /\ aiState \in AiStates
  /\ deps = CtxDeps
  /\ runs = <<>>
  /\ intervalRef = 0
  /\ timers = {}
  /\ startedByMonitorRef = FALSE
  /\ isSendingRef = FALSE
  /\ ticks = {}
  /\ nTicks = 0
  /\ sent = <<>>
  /\ outcome = "none"
  /\ OthersAtRest

Next ==
  \/ Mount /\ UNCHANGED others
  \/ DepsChanged /\ UNCHANGED others
  \/ CallbackChanged /\ UNCHANGED others
  \/ Unmount /\ UNCHANGED others
  \/ \E r \in RunIds : StartCaptureResolves(r) /\ UNCHANGED others
  \/ \E r \in RunIds : StartCaptureRejects(r) /\ UNCHANGED others
  \/ \E r \in RunIds : StartMonitorResumes(r) /\ UNCHANGED others
  \/ \E tm \in timers : Tick(tm) /\ UNCHANGED others
  \/ \E t \in ticks, srcs \in Captures : CaptureResolves(t, srcs) /\ UNCHANGED others
  \/ \E t \in ticks : CaptureThrows(t) /\ UNCHANGED others
  \/ SetEnabled /\ UNCHANGED others
  \/ WsChanges /\ UNCHANGED others
  \/ AiChanges /\ UNCHANGED others
  \/ OtherStartsCapture /\ UNCHANGED others
  \/ OtherStopsCapture /\ UNCHANGED others

Spec == Init /\ [][Next]_vars

\* ------------------------------------------------------------ vocabulary
Pending(r) == runs[r].pc \in {"startCapture", "ready", "notReady"}
GateOpen(tm) == tm.ws = "OPEN" /\ tm.ai = "IDLE"
\* this step hands a message to sendMessage
Sends == Len(sent') > Len(sent)
\* this step is the end of a tick
TickEnds == ticks' # ticks /\ ticks' \subseteq ticks
\* this step calls stopCapture (the only place that resets the ref, line 34)
CallsStopCapture == startedByMonitorRef /\ ~startedByMonitorRef'
\* the live effect run saw settings.enabled false, or the component is unmounted
TornDown == ~mounted \/ (runs # <<>> /\ ~deps.enabled)

\* C1: at most one capture-and-send cycle is in flight: while a tick has not
\* reached its finally block, no other tick captures or sends.
C1_OneCycleInFlight ==
  /\ Cardinality(ticks) <= 1
  /\ ticks # {} => isSendingRef

\* C1 witness: a tick of an earlier effect run is still awaiting captureAllMedia
\* while the recreated timer is active and its own gate is open.
C1_Witness ==
  \E t \in ticks, tm \in timers : tm.id # t.run /\ GateOpen(tm)

\* C2: whenever sendMessage is called, the websocket is OPEN and the AI is IDLE.
C2_SendOnlyWhenOpenAndIdle ==
  [][Sends => (wsState = "OPEN" /\ aiState = "IDLE")]_vars

\* C3: an effect run that saw settings.enabled false never calls startCapture,
\* never creates the timer, and nothing is captured or sent on its behalf.
C3_DisabledRunDoesNothing ==
  \A r \in RunIds :
    ~runs[r].enabled =>
      /\ runs[r].pc = "off"
      /\ \A tm \in timers : tm.id # r
      /\ \A t \in ticks : t.run # r

\* C3 witness: the live run is disabled while a stream exists, the websocket is
\* open and the AI is idle.
C3_Witness ==
  /\ runs # <<>> /\ mounted
  /\ ~runs[Live].enabled
  /\ deps.stream # NoStream /\ deps.ws = "OPEN" /\ deps.ai = "IDLE"

\* C4: once the teardown has begun (the live run saw enabled false, or the
\* component unmounted), no further screen-monitor message is sent.
C4_NoSendAfterTeardown ==
  [][Sends => ~TornDown]_vars

\* C5: at most one timer is active, it is the one intervalRef holds (so it is
\* cleared before another is created), it belongs to the live run, and none is
\* active when the live run saw enabled false or the component is unmounted.
C5_OneTimer ==
  /\ Cardinality(timers) <= 1
  /\ \A tm \in timers : tm.id = intervalRef /\ tm.id = Live
  /\ TornDown => timers = {}

\* C5 witness: the timer of the second run is active after the first run had
\* created one.
C5_Witness ==
  /\ Len(runs) >= 2
  /\ runs[1].pc = "monitoring"
  /\ \E tm \in timers : tm.id = 2

\* C6: the monitor does not call stopCapture on the capture it started until
\* settings.enabled becomes false or the component unmounts.
C6_OwnedCaptureKeptWhileEnabled ==
  [][CallsStopCapture => (~enabled \/ ~mounted')]_vars

\* C7: the runner never stops a stream that another party started.
C7_OnlyOwnedStreamStopped ==
  [][CallsStopCapture => stream.by # "other"]_vars

\* C8: when the monitor is torn down and nothing is pending any more, no timer
\* is active and no capture started by the monitor is running.
C8_StopReleasesAll ==
  (/\ TornDown
   /\ \A r \in RunIds : ~Pending(r)
   /\ mounted => (CtxDeps = deps /\ ~enabled))
    => (timers = {} /\ stream.by # "monitor")

\* C9: a rejected startCapture makes ensureScreenStream return false and leaves
\* startedByMonitorRef, the timer and the sent messages as they were; the run
\* then ends without a timer and without a tick.
C9_RejectDegrades ==
  /\ [](\A r \in RunIds :
          runs[r].pc \in {"notReady", "failed"} =>
            /\ \A tm \in timers : tm.id # r
            /\ \A t \in ticks : t.run # r)
  /\ [][\A r \in RunIds :
          /\ (runs[r].pc = "startCapture" /\ runs'[r].pc # "startCapture"
                 /\ stream' = stream)
               => /\ runs'[r].pc = "notReady"
                  /\ UNCHANGED <<startedByMonitorRef, intervalRef, timers, sent>>
          /\ runs[r].pc = "notReady" => runs'[r].pc \in {"notReady", "failed"}
          /\ runs[r].pc = "failed" => runs'[r].pc = "failed"]_vars

\* C9 witness: the live run's startCapture rejected and the run has ended, with
\* the gate of a timer otherwise open.
C9_Witness ==
  /\ runs # <<>> /\ mounted
  /\ runs[Live].pc = "failed" /\ ~runs[Live].cancelled
  /\ deps.ws = "OPEN" /\ deps.ai = "IDLE"
  /\ timers = {} /\ ~startedByMonitorRef

\* C10: the end of a tick releases isSendingRef however captureAllMedia ended,
\* a tick that threw or captured nothing sends nothing, and with no tick in
\* flight the gate is open for the next one.
C10_GateReleased ==
  /\ [](ticks = {} => ~isSendingRef)
  /\ [][TickEnds =>
          /\ ~isSendingRef'
          /\ outcome' \in {"threw", "empty"} => sent' = sent]_vars

\* C10 witness: after a tick whose captureAllMedia threw, a later tick has
\* passed the gate and is capturing.
C10_Witness ==
  outcome = "threw" /\ ticks # {}


(***************************************************************************)
(* The orchestrator: main() of the design document embedded in              *)
(* screen-monitor-runner.tsx (lines 838-883), with LocalQwen3TTS (646-690).  *)
(* main() is sequential up to its final gather; from then on "speech"        *)
(* events reach the manager and on_voice_input runs as the manager invokes   *)
(* it.  The document declares AdapterManager with empty bodies and without   *)
(* on_event and set_voice_callback: the gate around the callback is taken    *)
(* from the specification of the manager.                                    *)
(***************************************************************************)
\* ------------------------------------------------------------------ bounds
MaxSpeech == 3      \* "speech" events the manager receives

\* --------------------------------------------------------------- constants
DefaultPriority == 5
InterruptThreshold == 7
Priorities == {DefaultPriority, InterruptThreshold + 1}

\* the adapters main() registers, in order
MainAdapters == <<"screen", "voice", "keyboard">>

NoValue == "None"

\* `if not INIT_FLAG.exists():`
runsWizard(flagExists) == ~flagExists

\* a main() that goes on whatever the wizard returns
afterWizardContinue(ok) == "loadConfig"

\* `if not wizard.run(): sys.exit(0)`
afterWizard(ok) == IF ~ok THEN "exited" ELSE "loadConfig"

\* what `await tts.initialize()` evaluates to when the call returns: the body
\* loads the processor and the model and ends without a return statement
initializeResult == NoValue

\* Python truth of a value
truthy(v) == v = "True"

\* `if not await tts.initialize(): ... tts = DashscopeTTS(config)`
selectTts(result) == IF ~truthy(result) THEN "dashscope" ELSE "local"

\* ------------------------------------------------------------------ main()
CheckFlag ==
  /\ mpc = "start"
  /\ mpc' = IF runsWizard(initFlag) THEN "wizard" ELSE "loadConfig"
  /\ UNCHANGED <<initFlag, wizard, configLoaded, localInit, tts, registered,
                 voiceCallback, driverStarted, managerStarted, busy, queue,
                 interrupt, calls, nArrived>>

\* wizard.run() returns ok
WizardReturns(ok) ==
  /\ mpc = "wizard"
  /\ wizard' = IF ok THEN "ok" ELSE "refused"
  /\ mpc' = afterWizard(ok)
  /\ UNCHANGED <<initFlag, configLoaded, localInit, tts, registered,
                 voiceCallback, driverStarted, managerStarted, busy, queue,
                 interrupt, calls, nArrived>>

\* load_config, load_user_prefs, then `tts = LocalQwen3TTS(config)`
LoadConfig ==
  /\ mpc = "loadConfig"
  /\ configLoaded' = TRUE
  /\ tts' = "local"
  /\ mpc' = "ttsInit"
  /\ UNCHANGED <<initFlag, wizard, localInit, registered, voiceCallback,
                 driverStarted, managerStarted, busy, queue, interrupt, calls,
                 nArrived>>

\* the model loads: initialize returns
LocalInitReturns ==
  /\ mpc = "ttsInit"
  /\ localInit' = "returned"
  /\ tts' = selectTts(initializeResult)
  /\ mpc' = "register"
  /\ UNCHANGED <<initFlag, wizard, configLoaded, registered, voiceCallback,
                 driverStarted, managerStarted, busy, queue, interrupt, calls,
                 nArrived>>

\* the model does not load: from_pretrained raises, nothing in initialize or
\* in main() catches it
LocalInitRaises ==
  /\ mpc = "ttsInit"
  /\ localInit' = "raised"
  /\ mpc' = "crashed"
  /\ UNCHANGED <<initFlag, wizard, configLoaded, tts, registered,
                 voiceCallback, driverStarted, managerStarted, busy, queue,
                 interrupt, calls, nArrived>>

\* the next manager.register(...) of the three
RegisterAdapter ==
  /\ mpc = "register"
  /\ registered' = Append(registered, MainAdapters[Len(registered) + 1])
  /\ mpc' = IF Len(registered') = Len(MainAdapters) THEN "wire" ELSE "register"
  /\ UNCHANGED <<initFlag, wizard, configLoaded, localInit, tts,
                 voiceCallback, driverStarted, managerStarted, busy, queue,
                 interrupt, calls, nArrived>>

\* driver and openclaw are built, on_voice_input is handed to the manager
SetVoiceCallback ==
  /\ mpc = "wire"
  /\ voiceCallback' = TRUE
  /\ mpc' = "gather"
  /\ UNCHANGED <<initFlag, wizard, configLoaded, localInit, tts, registered,
                 driverStarted, managerStarted, busy, queue, interrupt, calls,
                 nArrived>>

\* the two coroutines of the final gather start in either order
DriverStart ==
  /\ mpc = "gather"
  /\ ~driverStarted
  /\ driverStarted' = TRUE
  /\ UNCHANGED <<mpc, initFlag, wizard, configLoaded, localInit, tts,
                 registered, voiceCallback, managerStarted, busy, queue,
                 interrupt, calls, nArrived>>

ManagerStartAll ==
  /\ mpc = "gather"
  /\ ~managerStarted
  /\ managerStarted' = TRUE
  /\ UNCHANGED <<mpc, initFlag, wizard, configLoaded, localInit, tts,
                 registered, voiceCallback, driverStarted, busy, queue,
                 interrupt, calls, nArrived>>

\* ------------------------------------------- the manager's gate (on_event)
Event(n, p) == [text |-> n, priority |-> p]

\* an invocation of on_voice_input(text): awaiting openclaw.think, then the
\* gather of driver.send_action and tts.speak
NewCall(ev) == [text |-> ev.text, pc |-> "think", acted |-> FALSE,
                spoke |-> FALSE, cancelled |-> FALSE]

\* a manager that invokes the callback for every "speech" event
gateAlwaysInvokes(isBusy, priority) == "invoke"

\* what the manager does with a "speech" event
gate(isBusy, priority) ==
  IF ~isBusy THEN "invoke"
  ELSE IF priority > InterruptThreshold THEN "interrupt"
  ELSE "queue"

\* the voice adapter reports recognized text
SpeechEvent(p) ==
  /\ mpc = "gather"
  /\ managerStarted
  /\ voiceCallback
  /\ nArrived < MaxSpeech
  /\ nArrived' = nArrived + 1
  /\ LET ev == Event(nArrived', p)
         do == gate(busy, p)
     IN  /\ busy' = TRUE
         /\ calls' = IF do = "invoke" THEN calls \cup {NewCall(ev)}
                     ELSE IF do = "interrupt"
                          THEN {[c EXCEPT !.cancelled = TRUE] : c \in calls}
                          ELSE calls
         /\ queue' = IF do = "queue" THEN Append(queue, ev) ELSE queue
         /\ interrupt' = IF do = "interrupt" THEN ev ELSE interrupt
  /\ UNCHANGED <<mpc, initFlag, wizard, configLoaded, localInit, tts,
                 registered, voiceCallback, driverStarted, managerStarted>>

\* invocation c is over (returned, raised or unwound): the call that replaces
\* a cancelled one starts, else the oldest waiting event is served, else the
\* gate opens
CallEnds(c) ==
  /\ IF interrupt # NoEvent
       THEN /\ calls' = (calls \ {c}) \cup {NewCall(interrupt)}
            /\ interrupt' = NoEvent
            /\ UNCHANGED <<busy, queue>>
       ELSE IF queue # <<>>
       THEN /\ calls' = (calls \ {c}) \cup {NewCall(Head(queue))}
            /\ queue' = Tail(queue)
            /\ UNCHANGED <<busy, interrupt>>
       ELSE /\ calls' = calls \ {c}
            /\ busy' = FALSE
            /\ UNCHANGED <<queue, interrupt>>
  /\ UNCHANGED <<mpc, initFlag, wizard, configLoaded, localInit, tts,
                 registered, voiceCallback, driverStarted, managerStarted,
                 nArrived>>

\* ---------------------------------------------------------- on_voice_input
\* openclaw.think returns a response: the gather of send_action and speak
ThinkReturns(c) ==
  /\ c \in calls
  /\ c.pc = "think"
  /\ ~c.cancelled
  /\ calls' = (calls \ {c}) \cup {[c EXCEPT !.pc = "gather"]}
  /\ UNCHANGED <<mpc, initFlag, wizard, configLoaded, localInit, tts,
                 registered, voiceCallback, driverStarted, managerStarted,
                 busy, queue, interrupt, nArrived>>

\* openclaw.think raises (timeout, malformed directive, network)
ThinkRaises(c) ==
  /\ c \in calls
  /\ c.pc = "think"
  /\ ~c.cancelled
  /\ CallEnds(c)

\* one coroutine of the gather completes; the invocation returns with the last
GatherStep(c, which) ==
  /\ c \in calls
  /\ c.pc = "gather"
  /\ ~c.cancelled
  /\ LET d == IF which = "act" THEN [c EXCEPT !.acted = TRUE]
                               ELSE [c EXCEPT !.spoke = TRUE]
     IN  /\ d # c
         /\ IF d.acted /\ d.spoke
              THEN CallEnds(c)
              ELSE /\ calls' = (calls \ {c}) \cup {d}
                   /\ UNCHANGED <<mpc, initFlag, wizard, configLoaded,
                                  localInit, tts, registered, voiceCallback,
                                  driverStarted, managerStarted, busy, queue,
                                  interrupt, nArrived>>

\* a cancelled invocation unwinds at the await it is suspended in
CallUnwinds(c) ==
  /\ c \in calls
  /\ c.cancelled
  /\ CallEnds(c)

MainInit ==
  /\ mpc = "start"
  /\ initFlag \in BOOLEAN
  /\ wizard = "notRun"
  /\ configLoaded = FALSE
  /\ localInit = "notCalled"
  /\ tts = "none"
  /\ registered = <<>>
  /\ voiceCallback = FALSE
  /\ driverStarted = FALSE
  /\ managerStarted = FALSE
  /\ busy = FALSE
  /\ queue = <<>>
  /\ interrupt = NoEvent
  /\ calls = {}
  /\ nArrived = 0
  /\ NotMainAtRest

MainNext ==
  \/ CheckFlag /\ UNCHANGED notMain
  \/ \E ok \in BOOLEAN : WizardReturns(ok) /\ UNCHANGED notMain
  \/ LoadConfig /\ UNCHANGED notMain
  \/ LocalInitReturns /\ UNCHANGED notMain
  \/ LocalInitRaises /\ UNCHANGED notMain
  \/ RegisterAdapter /\ UNCHANGED notMain
  \/ SetVoiceCallback /\ UNCHANGED notMain
  \/ DriverStart /\ UNCHANGED notMain
  \/ ManagerStartAll /\ UNCHANGED notMain
  \/ \E p \in Priorities : SpeechEvent(p) /\ UNCHANGED notMain
  \/ \E c \in calls : ThinkReturns(c) /\ UNCHANGED notMain
  \/ \E c \in calls : ThinkRaises(c) /\ UNCHANGED notMain
  \/ \E c \in calls, which \in {"act", "speak"} : GatherStep(c, which) /\ UNCHANGED notMain
  \/ \E c \in calls : CallUnwinds(c) /\ UNCHANGED notMain

SpecMain == MainInit /\ [][MainNext]_mainVars

\* ------------------------------------------------- claims about main()
\* C11: the speech-synthesis provider is chosen by fail-fast-then-degrade: the
\* local provider is attempted first and the remote provider is the one
\* selected if and only if the local initialization failed.
C11_RemoteIffLocalFailed ==
  /\ tts = "dashscope" => localInit = "raised"
  /\ localInit = "raised" => tts = "dashscope"

\* an event arrives at default priority while an invocation is executing
QueuedArrival ==
  /\ nArrived' = nArrived + 1
  /\ calls # {}
  /\ interrupt' = interrupt

\* C12: at most one invocation of on_voice_input executes at any time; a
\* "speech" event of default priority that arrives while one executes starts
\* no second invocation and is put at the end of the queue; and an event
\* leaves the queue only as the text of an invocation that starts.
C12_BusyGateHolds ==
  /\ [](Cardinality(calls) <= 1)
  /\ [][QueuedArrival =>
          /\ calls' = calls
          /\ queue' = Append(queue, Event(nArrived', DefaultPriority))]_mainVars
  /\ [][queue' # queue =>
          \/ \E p \in Priorities : queue' = Append(queue, Event(nArrived', p))
          \/ /\ queue # <<>>
             /\ queue' = Tail(queue)
             /\ \E c \in calls' \ calls : c.text = Head(queue).text]_mainVars

\* an invocation is executing and an event that arrived meanwhile is waiting
C12_Witness ==
  /\ Cardinality(calls) = 1
  /\ queue # <<>>
  /\ \A c \in calls : c.text < Head(queue).text

\* C18: the wizard runs exactly when the flag file is absent; when it returns
\* failure the process exits and no configuration is loaded, no provider is
\* initialized, no adapter is registered and nothing is started.
C18_FirstRunGating ==
  /\ mpc # "start" => ((mpc = "wizard" \/ wizard # "notRun") <=> ~initFlag)
  /\ wizard = "refused" =>
       /\ mpc = "exited"
       /\ ~configLoaded
       /\ localInit = "notCalled"
       /\ tts = "none"
       /\ registered = <<>>
       /\ ~voiceCallback
       /\ ~driverStarted
       /\ ~managerStarted

\* the wizard ran on a first start and returned failure
C18_Witness ==
  /\ ~initFlag
  /\ wizard = "refused"
  /\ mpc = "exited"

(***************************************************************************)
(* The adapter manager.  The design document gives AdapterManager            *)
(* (lines 458-469) as four methods with empty bodies, and AdapterBase        *)
(* (405-452) as the contract of an adapter; what register, start_all,        *)
(* on_event and get_context_snapshot do is taken from the specification of   *)
(* the manager.  The snapshot is a list of entries so that a missing or a    *)
(* doubled entry can be told from a single one.                              *)
(***************************************************************************)
\* ------------------------------------------------------------------ bounds
MaxEvents == 2      \* events the started adapters report

Range(f) == {f[i] : i \in DOMAIN f}

\* the entries of adapter a in a snapshot
EntriesOf(snap, a) == {i \in DOMAIN snap : snap[i].source = a}

\* a manager that starts every available adapter whatever initialize returned
startsAdapterIgnoringInit(isAvail, initOk) == isAvail

\* start_all: the adapters it starts
startsAdapter(isAvail, initOk) == isAvail /\ initOk

\* on_event: the entry of the event's source is overwritten in place
overwrite(snap, a, st) ==
  [i \in DOMAIN snap |-> IF snap[i].source = a THEN [source |-> a, state |-> st]
                         ELSE snap[i]]

\* register(adapter): recorded, not started; only before start_all
Register(a) ==
  /\ mgrPc = "registering"
  /\ a \notin Range(registry)
  /\ registry' = Append(registry, a)
  /\ UNCHANGED <<mgrPc, cursor, available, initResult, active, snapshot,
                 snapshotRead, nEvents>>

\* start_all() is called
StartAll ==
  /\ mgrPc = "registering"
  /\ mgrPc' = IF registry = <<>> THEN "started" ELSE "starting"
  /\ cursor' = 1
  /\ UNCHANGED <<registry, available, initResult, active, snapshot,
                 snapshotRead, nEvents>>

\* start_all at the next registration: an unavailable adapter is skipped; an
\* available one is initialized, its initialize() returning ok, and started
\* if that succeeded, with its current state as its entry of the snapshot
StartNext(ok) ==
  /\ mgrPc = "starting"
  /\ LET a == registry[cursor]
         isAvail == a \in available
     IN  /\ initResult' = IF isAvail
                            THEN [initResult EXCEPT ![a] = IF ok THEN "ok" ELSE "failed"]
                            ELSE initResult
         /\ IF startsAdapter(isAvail, ok)
              THEN /\ active' = active \cup {a}
                   /\ snapshot' = Append(snapshot, [source |-> a, state |-> 0])
              ELSE UNCHANGED <<active, snapshot>>
  /\ cursor' = cursor + 1
  /\ mgrPc' = IF cursor = Len(registry) THEN "started" ELSE "starting"
  /\ UNCHANGED <<registry, available, snapshotRead, nEvents>>

\* a started adapter reports an observation through on_event
AdapterReports(a) ==
  /\ a \in active
  /\ nEvents < MaxEvents
  /\ nEvents' = nEvents + 1
  /\ snapshot' = overwrite(snapshot, a, nEvents')
  /\ UNCHANGED <<registry, mgrPc, cursor, available, initResult, active,
                 snapshotRead>>

\* get_context_snapshot() after start_all() has returned: a copy
GetContextSnapshot ==
  /\ mgrPc = "started"
  /\ snapshotRead' = snapshot
  /\ UNCHANGED <<registry, mgrPc, cursor, available, initResult, active,
                 snapshot, nEvents>>

ManagerInit ==
  /\ registry = <<>>
  /\ mgrPc = "registering"
  /\ cursor = 0
  /\ available \in SUBSET Adapters
  /\ initResult = [a \in Adapters |-> "notCalled"]
  /\ active = {}
  /\ snapshot = <<>>
  /\ snapshotRead = NotRead
  /\ nEvents = 0
  /\ NotManagerAtRest

ManagerNext ==
  \/ \E a \in Adapters : Register(a) /\ UNCHANGED notManager
  \/ StartAll /\ UNCHANGED notManager
  \/ \E ok \in BOOLEAN : StartNext(ok) /\ UNCHANGED notManager
  \/ \E a \in Adapters : AdapterReports(a) /\ UNCHANGED notManager
  \/ GetContextSnapshot /\ UNCHANGED notManager

SpecManager == ManagerInit /\ [][ManagerNext]_mgrVars

\* the registered adapters that passed is_available() and whose initialize()
\* succeeded
Passed == {a \in Range(registry) : a \in available /\ initResult[a] = "ok"}

\* C13: what get_context_snapshot() returns after start_all() has exactly one
\* entry for every registered adapter that passed is_available() and whose
\* initialize() succeeded, and no entry for any other adapter.
C13_SnapshotOfStarted ==
  snapshotRead # NotRead =>
    \A a \in Adapters :
      Cardinality(EntriesOf(snapshotRead, a)) = IF a \in Passed THEN 1 ELSE 0

\* a snapshot was read after a start_all that started one adapter, skipped an
\* unavailable one and disabled one whose initialize failed
C13_Witness ==
  /\ snapshotRead # NotRead
  /\ Passed # {}
  /\ \E a \in Range(registry) : a \notin available
  /\ \E a \in Range(registry) : initResult[a] = "failed"

(***************************************************************************)
(* The screen adapter of the design document: the cross-platform window      *)
(* accessor get_active_window (lines 553-559) and ContentRecognizer          *)
(* (567-605).  Both are functions of their inputs; the specification draws   *)
(* the inputs (the host platform, the configured mode, the text the OCR      *)
(* finds, the windows the native lookups see) and applies them.              *)
(***************************************************************************)
\* ------------------------------------------------------------------ bounds
MaxMargin == 2      \* OCR texts are up to this much shorter or longer than
                    \* the limit

\* --------------------------------------------------------------- constants
MaxOcrChars == 500

Platforms == {"win32", "darwin", "linux"}
Modes == {"ocr", "vlm"}

\* an OCR result of n characters, no two neighbours alike
Text(n) == [i \in 1..n |-> i % 10]

Texts == {Text(0), Text(1)} \cup
         {Text(n) : n \in (MaxOcrChars - MaxMargin)..(MaxOcrChars + MaxMargin)}

\* what the native lookups can see on their platform
WinWindows == {[title |-> "Untitled - Notepad", process |-> "notepad.exe"],
               [title |-> "", process |-> "explorer.exe"]}
MacWindows == {[title |-> "Untitled", process |-> "TextEdit"],
               [title |-> "", process |-> "Finder"]}

B64 == "b64"

\* a slice that keeps the whole text
sliceAll(text, n) == text

\* Python's text[:n]
slice(text, n) == SubSeq(text, 1, IF Len(text) < n THEN Len(text) ELSE n)

\* an accessor that falls back to the macOS lookup on unknown platforms
getActiveWindowWithFallback(plat, win, mac) ==
  IF plat = "win32" THEN [raised |-> "", window |-> win]
  ELSE [raised |-> "", window |-> mac]

\* get_active_window(), win and mac being what the native lookups return
get_active_window(plat, win, mac) ==
  IF plat = "win32" THEN [raised |-> "", window |-> win]
  ELSE IF plat = "darwin" THEN [raised |-> "", window |-> mac]
  ELSE [raised |-> "NotImplementedError", window |-> NoWindow]

\* a recognizer that encodes the screenshot in every mode
captureEncodingAlways(mode, text) ==
  [made |-> {"text", "b64"},
   returned |-> <<[type |-> "screenshot_b64", content |-> B64]>>]

\* capture_and_analyze() of a recognizer in `mode`, text being what _ocr
\* finds on the screenshot: what it makes of the screenshot and what it
\* returns (no payload when neither branch is taken)
capture_and_analyze(mode, text) ==
  IF mode = "ocr"
    THEN [made |-> {"text"},
          returned |-> <<[type |-> "ocr", content |-> slice(text, MaxOcrChars)]>>]
  ELSE IF mode = "vlm"
    THEN [made |-> {"b64"},
          returned |-> <<[type |-> "screenshot_b64", content |-> B64]>>]
  ELSE [made |-> {}, returned |-> <<>>]

\* ContentRecognizer(config)
Construct ==
  /\ recMode = "unset"
  /\ recMode' = cfgMode
  /\ UNCHANGED <<platform, cfgMode, capture, windowCall>>

\* the configuration is changed while the adapter runs
ConfigChanges ==
  /\ recMode # "unset"
  /\ cfgMode' \in Modes \ {cfgMode}
  /\ UNCHANGED <<platform, recMode, capture, windowCall>>

\* one capture cycle: the call branches on self.mode, set in __init__
CaptureAndAnalyze(text) ==
  /\ recMode # "unset"
  /\ LET done == capture_and_analyze(recMode, text)
     IN  capture' = [cfg |-> cfgMode, mode |-> recMode, text |-> text,
                     made |-> done.made, returned |-> done.returned]
  /\ UNCHANGED <<platform, cfgMode, recMode, windowCall>>

\* one poll of the window-watch loop
GetActiveWindow(win, mac) ==
  /\ windowCall' = [win |-> win, mac |-> mac,
                    result |-> get_active_window(platform, win, mac)]
  /\ UNCHANGED <<platform, cfgMode, recMode, capture>>

ScreenInit ==
  /\ platform \in Platforms
  /\ cfgMode \in Modes
  /\ recMode = "unset"
  /\ capture = NoCapture
  /\ windowCall = NoWindowCall
  /\ NotScreenAtRest

ScreenNext ==
  \/ Construct /\ UNCHANGED notScreen
  \/ ConfigChanges /\ UNCHANGED notScreen
  \/ \E text \in Texts : CaptureAndAnalyze(text) /\ UNCHANGED notScreen
  \/ \E win \in WinWindows, mac \in MacWindows :
       GetActiveWindow(win, mac) /\ UNCHANGED notScreen

SpecScreen == ScreenInit /\ [][ScreenNext]_scrVars

\* the payload type of a mode
TypeOf(mode) == IF mode = "ocr" THEN "ocr" ELSE "screenshot_b64"

\* C14: a change of the configured mode takes effect on the next capture
\* cycle: every capture_and_analyze call returns a payload of the type of the
\* mode configured at the time of the call, the recognizer not being
\* constructed again.
C14_ModeSwitchTakesEffect ==
  capture # NoCapture =>
    /\ Len(capture.returned) = 1
    /\ capture.returned[1].type = TypeOf(capture.cfg)

\* C15: every capture_and_analyze call returns exactly one payload, of type
\* "ocr" in ocr mode and of type "screenshot_b64" in vlm mode, and in ocr mode
\* it makes no encoded screenshot.
C15_ModesExclusive ==
  capture # NoCapture =>
    /\ Len(capture.returned) = 1
    /\ capture.mode = "ocr" =>
         capture.returned[1].type = "ocr" /\ "b64" \notin capture.made
    /\ capture.mode = "vlm" =>
         capture.returned[1].type = "screenshot_b64" /\ capture.made = {"b64"}

\* a capture in ocr mode has returned
C15_Witness ==
  /\ capture # NoCapture
  /\ capture.mode = "ocr"
  /\ capture.made = {"text"}

\* C16: get_active_window returns the Windows lookup's result on win32, the
\* macOS lookup's result on darwin, and on every other platform raises the
\* unsupported-platform error and returns no window.
C16_DispatchNoFallback ==
  windowCall # NoWindowCall =>
    LET res == windowCall.result
    IN  /\ platform = "win32" => res.raised = "" /\ res.window = windowCall.win
        /\ platform = "darwin" => res.raised = "" /\ res.window = windowCall.mac
        /\ platform \notin {"win32", "darwin"} =>
             res.raised = "NotImplementedError" /\ res.window = NoWindow

\* get_active_window was called on a platform that is neither
C16_Witness ==
  /\ windowCall # NoWindowCall
  /\ platform = "linux"
  /\ windowCall.result.raised # ""

\* the shorter of two lengths
Min(a, b) == IF a <= b THEN a ELSE b

\* C17: in ocr mode the content of the returned payload is the prefix of the
\* OCR text of length min(len(text), 500).
C17_OcrContentIsPrefix ==
  (capture # NoCapture /\ capture.mode = "ocr") =>
    LET content == capture.returned[1].content
    IN  /\ Len(content) = Min(Len(capture.text), 500)
        /\ \A i \in 1..Len(content) : content[i] = capture.text[i]

\* an OCR text longer than the limit was cut
C17_Witness ==
  /\ capture # NoCapture
  /\ capture.mode = "ocr"
  /\ Len(capture.text) > 500
  /\ Len(capture.returned[1].content) = 500

(***************************************************************************)
(* The settings hook useScreenMonitorSettings (context/screen-monitor-       *)
(* context.tsx, lines 67-119) over the provider's persisted setting, which   *)
(* is the `enabled` the runner reads.  A handler runs to its end together     *)
(* with the re-render it causes: a call of setEnabled makes a new settings    *)
(* object, so the effect on [persistedSettings] (lines 81-84) runs and        *)
(* copies it into both pieces of state.                                       *)
(***************************************************************************)
\* ------------------------------------------------------------------ bounds
MaxOps == 3         \* calls of the hook's handlers

\* the effect on [persistedSettings]: both pieces of state follow the
\* persisted settings
syncEffect(persisted) == [temp |-> [enabled |-> persisted],
                          original |-> [enabled |-> persisted]]

\* a switch that writes through to the persisted setting
persistedAfterChangeIsChecked(persisted, checked) == checked

\* handleEnabledChange calls setTempSettings only: the persisted setting
\* after it
persistedAfterChange(persisted, checked) == persisted

\* a cancel that persists the draft
cancelPersistsDraft(temp, original) == temp.enabled

\* handleCancel: the value it passes to setEnabled
cancelPersists(temp, original) == original.enabled

\* a save that persists what was saved before
savePersistsOriginal(temp, original) == original.enabled

\* handleSave: the value it passes to setEnabled
savePersists(temp, original) == temp.enabled

\* an op ends the run of toggles, a toggle after it begins a new one
IsToggle(op) == op \in {"on", "off"}

Toggling == ops # <<>> /\ IsToggle(ops[Len(ops)])

\* what local storage can hold besides `enabled`
StoredRests == {"none", "legacy"}

\* setEnabled: setSettings(prev => ({...prev, enabled}))
setEnabled(prev, en) == [prev EXCEPT !.enabled = en]

\* the stored settings
Stored == [enabled |-> enabled, rest |-> storedRest]

\* the handlers as useCallback makes them: handleSave closes over
\* tempSettings, handleCancel over originalSettings
handleSave(temp) == [temp |-> temp]
handleCancel(original) == [original |-> original]

\* `if (!onSave || !onCancel) return;`
bothProvided(onS, onC) == onS /\ onC

\* a registration effect without cleanup
registrationWithoutCleanup(provided, handlers, old, new) ==
  IF ~provided THEN handlers ELSE handlers \cup {new}

\* the registration effect when a handler was recreated: the cleanup of the
\* previous run unregisters the old handler, the run registers the new one
registrationEffect(provided, handlers, old, new) ==
  IF ~provided THEN handlers ELSE (handlers \ {old}) \cup {new}

\* the re-render after a handler has run: both handlers are recreated and
\* the registration effect runs
Rerender ==
  LET provided == bothProvided(onSave, onCancel)
  IN  /\ saveHandlers' = registrationEffect(provided, saveHandlers,
                           handleSave(tempSettings), handleSave(tempSettings'))
      /\ cancelHandlers' = registrationEffect(provided, cancelHandlers,
                             handleCancel(originalSettings),
                             handleCancel(originalSettings'))
      /\ UNCHANGED <<onSave, onCancel>>

\* the user flips the switch: handleEnabledChange(checked)
HandleEnabledChange(checked) ==
  /\ Len(ops) < MaxOps
  /\ ops' = Append(ops, IF checked THEN "on" ELSE "off")
  /\ beforeToggles' = IF Toggling THEN beforeToggles ELSE enabled
  /\ enabled' = persistedAfterChange(enabled, checked)
  /\ IF enabled' # enabled
       THEN /\ tempSettings' = syncEffect(enabled').temp
            /\ originalSettings' = syncEffect(enabled').original
       ELSE /\ tempSettings' = [tempSettings EXCEPT !.enabled = checked]
            /\ UNCHANGED originalSettings
  /\ UNCHANGED storedRest
  /\ Rerender

\* the dialog is saved and calls the registered callback h: handleSave()
\* calls setEnabled(tempSettings.enabled) and setOriginalSettings(tempSettings)
\* on the tempSettings it closed over; the effect then copies the new
\* persisted settings into both
HandleSave(h) ==
  /\ h \in saveHandlers
  /\ Len(ops) < MaxOps
  /\ ops' = Append(ops, "save")
  /\ LET stored == setEnabled(Stored, savePersists(h.temp, originalSettings))
     IN  /\ enabled' = stored.enabled
         /\ storedRest' = stored.rest
  /\ tempSettings' = syncEffect(enabled').temp
  /\ originalSettings' = syncEffect(enabled').original
  /\ UNCHANGED beforeToggles
  /\ Rerender

\* the dialog is cancelled and calls the registered callback h:
\* handleCancel() calls setTempSettings(originalSettings) and
\* setEnabled(originalSettings.enabled) on the originalSettings it closed
\* over; the effect then copies the new persisted settings into both
HandleCancel(h) ==
  /\ h \in cancelHandlers
  /\ Len(ops) < MaxOps
  /\ ops' = Append(ops, "cancel")
  /\ LET stored == setEnabled(Stored, cancelPersists(tempSettings, h.original))
     IN  /\ enabled' = stored.enabled
         /\ storedRest' = stored.rest
  /\ tempSettings' = syncEffect(enabled').temp
  /\ originalSettings' = syncEffect(enabled').original
  /\ UNCHANGED beforeToggles
  /\ Rerender

\* the first render and its effects, over what local storage holds
HookInit ==
  /\ enabled \in BOOLEAN
  /\ storedRest \in StoredRests
  /\ tempSettings = [enabled |-> enabled]
  /\ originalSettings = [enabled |-> enabled]
  /\ ops = <<>>
  /\ beforeToggles = enabled
  /\ onSave \in BOOLEAN
  /\ onCancel \in BOOLEAN
  /\ saveHandlers = registrationEffect(bothProvided(onSave, onCancel), {},
                      handleSave(tempSettings), handleSave(tempSettings))
  /\ cancelHandlers = registrationEffect(bothProvided(onSave, onCancel), {},
                        handleCancel(originalSettings),
                        handleCancel(originalSettings))
  /\ NotHookAtRest

HookNext ==
  \/ \E checked \in BOOLEAN : HandleEnabledChange(checked) /\ UNCHANGED notHook
  \/ \E h \in saveHandlers : HandleSave(h) /\ UNCHANGED notHook
  \/ \E h \in cancelHandlers : HandleCancel(h) /\ UNCHANGED notHook

SpecHook == HookInit /\ [][HookNext]_<<enabled, hookVars>>

\* C19: when handleCancel follows a run of handleEnabledChange calls, the
\* draft and the persisted setting both equal what was persisted before the
\* run began.
C19_CancelRestoresSaved ==
  (Len(ops) >= 2 /\ ops[Len(ops)] = "cancel" /\ IsToggle(ops[Len(ops) - 1])) =>
    /\ tempSettings.enabled = beforeToggles
    /\ enabled = beforeToggles

\* a draft that differed from the persisted setting was cancelled
C19_Witness ==
  /\ Len(ops) >= 2
  /\ ops[Len(ops)] = "cancel"
  /\ ops[Len(ops) - 1] = (IF beforeToggles THEN "off" ELSE "on")
  /\ enabled = beforeToggles

\* C20: handleEnabledChange(checked) sets tempSettings.enabled to checked and
\* leaves the persisted setting, which the runner reads, and originalSettings
\* as they were.
C20_ToggleIsDraftOnly ==
  [][\A checked \in BOOLEAN :
       ops' = Append(ops, IF checked THEN "on" ELSE "off") =>
         /\ tempSettings'.enabled = checked
         /\ enabled' = enabled
         /\ originalSettings' = originalSettings]_<<enabled, hookVars>>

\* the switch was flipped and the draft now differs from the persisted setting
C20_Witness ==
  /\ Toggling
  /\ tempSettings.enabled # enabled
  /\ originalSettings.enabled = enabled

\* C21: handleSave makes the persisted setting and originalSettings equal to
\* the draft shown when it was called and leaves the other stored fields
\* alone; a handleCancel right after it changes neither the persisted setting
\* nor the draft; and setEnabled sets the enabled field only, a second call
\* with the same value changing nothing.
C21_SaveCommitsDraft ==
  /\ [][ops' = Append(ops, "save") =>
          /\ enabled' = tempSettings.enabled
          /\ originalSettings'.enabled = tempSettings.enabled
          /\ storedRest' = storedRest]_<<enabled, hookVars>>
  /\ [][(ops # <<>> /\ ops[Len(ops)] = "save" /\ ops' = Append(ops, "cancel")) =>
          /\ enabled' = enabled
          /\ tempSettings'.enabled = enabled]_<<enabled, hookVars>>
  /\ [](\A v \in BOOLEAN :
          /\ setEnabled(Stored, v).enabled = v
          /\ setEnabled(Stored, v).rest = storedRest
          /\ setEnabled(setEnabled(Stored, v), v) = setEnabled(Stored, v))

\* a changed draft was saved, with other fields in the store, and a cancel
\* followed
C21_Witness ==
  /\ Len(ops) >= 3
  /\ ops[Len(ops)] = "cancel"
  /\ ops[Len(ops) - 1] = "save"
  /\ ops[Len(ops) - 2] = (IF beforeToggles THEN "off" ELSE "on")
  /\ enabled # beforeToggles
  /\ storedRest = "legacy"

\* C22: handlers are registered only when both props are provided, a save
\* handler exactly when a cancel handler; at most one of each is registered,
\* and the registered ones closed over the current tempSettings and
\* originalSettings.
C22_HandlersPairedAndCurrent ==
  /\ (saveHandlers # {} \/ cancelHandlers # {}) => (onSave /\ onCancel)
  /\ (saveHandlers = {}) <=> (cancelHandlers = {})
  /\ Cardinality(saveHandlers) <= 1
  /\ Cardinality(cancelHandlers) <= 1
  /\ \A h \in saveHandlers : h.temp = tempSettings
  /\ \A h \in cancelHandlers : h.original = originalSettings

\* the handlers were recreated: the registered save handler closed over a
\* draft that differs from the persisted setting
C22_Witness ==
  /\ onSave /\ onCancel
  /\ saveHandlers = {handleSave(tempSettings)}
  /\ cancelHandlers = {handleCancel(originalSettings)}
  /\ tempSettings.enabled # enabled

(***************************************************************************)
(* One tick's try block (screen-monitor-runner.tsx, lines 60-74) as a       *)
(* function of what captureAllMedia resolves with: lists of images from the  *)
(* screen and from other sources, each with a field of its own besides       *)
(* `source`.                                                                 *)
(***************************************************************************)
\* ------------------------------------------------------------------ bounds
MaxImages == 3      \* images one captureAllMedia call returns

\* an image as captured: its source, no category yet, and its data
Images == [source : {"screen", "camera"}, category : {"none"},
           data : {"d1", "d2"}]

ImageLists == UNION {[1..n -> Images] : n \in 0..MaxImages}

\* captureAllMedia resolves and the try block runs to its end
TryBlock ==
  /\ tryPc = "awaiting"
  /\ handed' = messagesOf(captured)
  /\ tryPc' = "done"
  /\ UNCHANGED captured

TryInit ==
  /\ captured \in ImageLists
  /\ handed = <<>>
  /\ tryPc = "awaiting"
  /\ NotTryAtRest

TryNext == TryBlock /\ UNCHANGED notTry

SpecTry == TryInit /\ [][TryNext]_tryVars

\* C23: a tick whose capture is empty hands nothing to sendMessage; any other
\* tick hands it exactly one message, of type 'text-input', with the
\* screen-monitor prompt and one image for each captured image.
C23_SendOnceOrNever ==
  tryPc = "done" =>
    IF Len(captured) = 0
      THEN handed = <<>>
      ELSE /\ Len(handed) = 1
           /\ handed[1].type = "text-input"
           /\ handed[1].text = SCREEN_MONITOR_PROMPT
           /\ Len(handed[1].images) = Len(captured)
           /\ \A i \in 1..Len(captured) :
                /\ handed[1].images[i].source = captured[i].source
                /\ handed[1].images[i].data = captured[i].data

\* a tick with an empty capture has ended
C23_Witness ==
  /\ tryPc = "done"
  /\ captured = <<>>
  /\ handed = <<>>

\* C24: the images sent are the captured ones in the same number and order;
\* an image whose source is 'screen' has category 'screen-monitor' and is
\* otherwise unchanged, any other image is unchanged.
C24_TaggingPreservesList ==
  (tryPc = "done" /\ handed # <<>>) =>
    LET out == handed[1].images
    IN  /\ Len(out) = Len(captured)
        /\ \A i \in 1..Len(captured) :
             IF captured[i].source = "screen"
               THEN /\ out[i].category = "screen-monitor"
                    /\ out[i].source = captured[i].source
                    /\ out[i].data = captured[i].data
               ELSE out[i] = captured[i]

\* a capture with a screen image after an image of another source was sent
C24_Witness ==
  /\ tryPc = "done"
  /\ Len(captured) >= 2
  /\ captured[1].source = "camera"
  /\ captured[2].source = "screen"
  /\ handed[1].images[1].category = "none"
  /\ handed[1].images[2].category = "screen-monitor"

(***************************************************************************)
(* start_all.sh: kill_port for the two ports, then the backend, then the    *)
(* Electron client.  The script runs under `set -euo pipefail`, so a         *)
(* command that fails ends it unless the line provides for the failure.      *)
(* Between any two commands of the script a process may close its port or   *)
(* exit, on the signal it got or by itself.                                  *)
(***************************************************************************)
\* ------------------------------------------------------------------ bounds
MaxProcs == 2       \* processes that listen on the two ports

\* --------------------------------------------------------------- constants
Ports == <<12393, 3000>>

Pids == 1..MaxProcs

Gone == [port |-> 0, st |-> "gone"]

\* a process: listening on its port, closing down (the port released, the
\* process still there), or gone
ProcStates == {Gone} \cup
              {[port |-> Ports[i], st |-> "listening"] : i \in DOMAIN Ports}

\* `lsof -ti tcp:$port || true`
lsof(port) == {p \in Pids : proc[p].port = port /\ proc[p].st = "listening"}

\* the processes a signal can reach
Alive == {p \in Pids : proc[p].st # "gone"}

\* kill's exit status: it fails when one of the pids is no more
killStatus(targets) == IF targets \subseteq Alive THEN 0 ELSE 1

\* `|| true`: the script goes on whatever the status
orTrue(status, next) == next

\* a kill_port that keeps the first list for the forced kill
pidsKept(before, listening) == before

\* line 14: `pids` after the wait is what lsof lists then
pidsAfterWait(before, listening) == listening

\* line 9, and the `if` of line 10
Lsof ==
  /\ spc = "lsof"
  /\ pids' = lsof(Ports[portIdx])
  /\ foundFirst' = foundFirst \cup pids'
  /\ spc' = IF pids' # {} THEN "kill" ELSE "return"
  /\ UNCHANGED <<portIdx, proc, termed, forced, rechecked, handled, launched>>

\* line 12: `kill ${pids} || true`
Kill ==
  /\ spc = "kill"
  /\ termed' = termed \cup (pids \cap Alive)
  /\ spc' = orTrue(killStatus(pids), "sleep")
  /\ UNCHANGED <<portIdx, pids, proc, forced, foundFirst, rechecked, handled,
                 launched>>

\* lines 13-15: the wait, the second lsof and its `if`
Recheck ==
  /\ spc = "sleep"
  /\ pids' = pidsAfterWait(pids, lsof(Ports[portIdx]))
  /\ rechecked' = rechecked \cup lsof(Ports[portIdx])
  /\ spc' = IF pids' # {} THEN "kill9" ELSE "return"
  /\ UNCHANGED <<portIdx, proc, termed, forced, foundFirst, handled, launched>>

\* line 17: `kill -9 ${pids} || true`; a process that gets it is gone
Kill9 ==
  /\ spc = "kill9"
  /\ forced' = forced \cup (pids \cap Alive)
  /\ proc' = [p \in Pids |-> IF p \in pids THEN Gone ELSE proc[p]]
  /\ spc' = orTrue(killStatus(pids), "return")
  /\ UNCHANGED <<portIdx, pids, termed, foundFirst, rechecked, handled,
                 launched>>

\* kill_port returns: the next kill_port call, or on to the backend
Return ==
  /\ spc = "return"
  /\ handled' = Append(handled, Ports[portIdx])
  /\ IF portIdx < Len(Ports)
       THEN /\ portIdx' = portIdx + 1
            /\ spc' = "lsof"
            /\ pids' = {}
       ELSE /\ spc' = "backend"
            /\ UNCHANGED <<portIdx, pids>>
  /\ UNCHANGED <<proc, termed, forced, foundFirst, rechecked, launched>>

\* line 31: the backend is started in the background
StartBackend ==
  /\ spc = "backend"
  /\ launched' = Append(launched, "backend")
  /\ spc' = "electron"
  /\ UNCHANGED <<portIdx, pids, proc, termed, forced, foundFirst, rechecked,
                 handled>>

\* lines 33-37: the wait, cd, and `exec npm run dev`
StartElectron ==
  /\ spc = "electron"
  /\ launched' = Append(launched, "electron")
  /\ spc' = "exec"
  /\ UNCHANGED <<portIdx, pids, proc, termed, forced, foundFirst, rechecked,
                 handled>>

\* line 36: the cd fails and the script ends there
CdFails ==
  /\ spc = "electron"
  /\ spc' = "failed"
  /\ UNCHANGED <<portIdx, pids, proc, termed, forced, foundFirst, rechecked,
                 handled, launched>>

\* a listening process releases its port and goes on closing down
ProcessCloses(p) ==
  /\ spc \in {"lsof", "kill", "sleep", "kill9", "return"}
  /\ proc[p].st = "listening"
  /\ proc' = [proc EXCEPT ![p].st = "closing"]
  /\ UNCHANGED <<spc, portIdx, pids, termed, forced, foundFirst, rechecked,
                 handled, launched>>

\* a process exits
ProcessExits(p) ==
  /\ spc \in {"lsof", "kill", "sleep", "kill9", "return"}
  /\ proc[p].st # "gone"
  /\ proc' = [proc EXCEPT ![p] = Gone]
  /\ UNCHANGED <<spc, portIdx, pids, termed, forced, foundFirst, rechecked,
                 handled, launched>>

ScriptInit ==
  /\ spc = "lsof"
  /\ portIdx = 1
  /\ pids = {}
  /\ proc \in [Pids -> ProcStates]
  /\ termed = {}
  /\ forced = {}
  /\ foundFirst = {}
  /\ rechecked = {}
  /\ handled = <<>>
  /\ launched = <<>>
  /\ NotStartAtRest

ScriptNext ==
  \/ Lsof /\ UNCHANGED notStart
  \/ Kill /\ UNCHANGED notStart
  \/ Recheck /\ UNCHANGED notStart
  \/ Kill9 /\ UNCHANGED notStart
  \/ Return /\ UNCHANGED notStart
  \/ StartBackend /\ UNCHANGED notStart
  \/ StartElectron /\ UNCHANGED notStart
  \/ CdFails /\ UNCHANGED notStart
  \/ \E p \in Pids : ProcessCloses(p) /\ UNCHANGED notStart
  \/ \E p \in Pids : ProcessExits(p) /\ UNCHANGED notStart

SpecScript == ScriptInit /\ [][ScriptNext]_startVars

\* C25: kill -9 goes only to processes that got the normal kill and that the
\* lsof after the wait still listed as listening; no signal goes to a process
\* that the first lsof did not list, so none when nothing listens; a kill
\* that fails does not end the script; and the backend is launched after both
\* kill_port calls, the Electron client after the backend.
C25_ShutdownThenStartup ==
  /\ forced \subseteq rechecked
  /\ forced \subseteq termed
  /\ termed \subseteq foundFirst
  /\ spc # "aborted"
  /\ launched # <<>> => handled = Ports
  /\ launched \in {<<>>, <<"backend">>, <<"backend", "electron">>}

\* a process stayed on its port through the normal kill and was killed by
\* force, another closed down on the normal kill and was spared, and the
\* script went on to launch both programs
C25_Witness ==
  /\ forced # {}
  /\ termed \ forced # {}
  /\ launched = <<"backend", "electron">>

====
